---- MODULE Spec2Model ----
(***************************************************************************)
(* Model of feynman_path: the Diagram class (feynman_path/diagram.py), its *)
(* gate operations on the sequence of amplitude snapshots and the drawing  *)
(* it accumulates, and the two drivers of feynman_path/command.py.         *)
(*                                                                         *)
(* Amplitudes.  Every amplitude the modelled gates produce is a Gaussian   *)
(* integer over a power of sqrt(2); [re, im, k] stands for                 *)
(* (re + im*i) / sqrt(2)^k.  sympy keeps such numbers exact.               *)
(* Bitstrings are sequences of the characters "0" and "1"; Python's        *)
(* 0-based (and negative) indexing is modelled by PyIndexOk and PyPos.     *)
(* A snapshot is a Python dict, which keeps insertion order: a sequence of *)
(* [key, amp] entries with distinct keys.                                  *)
(***************************************************************************)
EXTENDS Integers, Sequences, FiniteSets

VARIABLES f, raised, gates, gi, mode, lines, returned

vars == <<f, raised, gates, gi, mode, lines, returned>>

\* ------------------------------------------------------------- bounds
MaxQubits == 2
MaxGates == 3
MaxTokens == 3
MaxArrowSpace == 5

\* ------------------------------------------------- exact amplitudes
Amp(re, im, k) == [re |-> re, im |-> im, k |-> k]

Pow2(n) == IF n <= 0 THEN 1 ELSE 2 ^ n

\* sympy's canonical form of a number: the power of sqrt(2) is pulled out
\* of the numerator (2/sqrt(2)^2 is 1), and zero is 0.
RECURSIVE AmpNorm(_)
AmpNorm(a) ==
    IF a.re = 0 /\ a.im = 0 THEN Amp(0, 0, 0)
    ELSE IF a.re % 2 = 0 /\ a.im % 2 = 0
         THEN AmpNorm(Amp(a.re \div 2, a.im \div 2, a.k - 2))
         ELSE a

AmpMul(a, b) ==
    Amp(a.re * b.re - a.im * b.im, a.re * b.im + a.im * b.re, a.k + b.k)

\* The sum of two amplitudes over a common power of sqrt(2).  The powers
\* of the amplitudes of one snapshot differ by an even number; no case of
\* the expression covers an odd difference.
AmpAdd(a, b) ==
    CASE a.re = 0 /\ a.im = 0 -> b
      [] b.re = 0 /\ b.im = 0 -> a
      [] (a.k - b.k) % 2 = 0 /\ a.k >= b.k ->
            LET s == Pow2((a.k - b.k) \div 2)
            IN  Amp(a.re + s * b.re, a.im + s * b.im, a.k)
      [] (a.k - b.k) % 2 = 0 /\ a.k < b.k ->
            LET s == Pow2((b.k - a.k) \div 2)
            IN  Amp(s * a.re + b.re, s * a.im + b.im, b.k)

AmpNeg(a) == Amp(-a.re, -a.im, a.k)

AmpIsZero(a) == a.re = 0 /\ a.im = 0

\* sympy.simplify of a number of this form: its canonical form.
simplify(a) == AmpNorm(a)

\* 1 / 1e-8: the pruning threshold of add_states and state_text.
EpsInv == 100000000

\* get_abs(amp) < 1e-8.  |amp|^2 is (re^2 + im^2) / 2^k, so the test is
\* (re^2 + im^2) * 10^16 < 2^k, computed here without leaving 32 bits.
get_abs_below_eps(a) ==
    LET m == a.re * a.re + a.im * a.im
    IN  IF m = 0 THEN TRUE
        ELSE IF a.k <= 0 THEN FALSE
        ELSE ((((2 ^ a.k) - 1) \div m) \div EpsInv) \div EpsInv >= 1

\* ------------------------------------------------------ rationals
\* Layout lengths are Python numbers (ints and floats); <<n, d>> is n/d.
RECURSIVE Gcd(_, _)
Gcd(a, b) == IF b = 0 THEN (IF a < 0 THEN -a ELSE a) ELSE Gcd(b, a % b)

Rat(n, d) ==
    LET g == Gcd(n, d)
        s == IF d < 0 THEN -1 ELSE 1
    IN  IF g = 0 THEN <<0, 1>> ELSE <<(s * n) \div g, (s * d) \div g>>

RatMul(a, b) == Rat(a[1] * b[1], a[2] * b[2])
RatAdd(a, b) == Rat(a[1] * b[2] + b[1] * a[2], a[2] * b[2])
RatHalf(a) == Rat(a[1], 2 * a[2])
RatGt(a, b) == a[1] * b[2] > b[1] * a[2]

\* --------------------------------------------------- Python indexing
PyIndexOk(s, i) == i >= -Len(s) /\ i <= Len(s) - 1
PyPos(s, i) == IF i >= 0 THEN i + 1 ELSE Len(s) + i + 1

\* ------------------------------------------------------- snapshots
Entry(key, amp) == [key |-> key, amp |-> amp]

Keys(snap) == {snap[i].key : i \in 1..Len(snap)}

KeyPos(snap, key) == CHOOSE i \in 1..Len(snap) : snap[i].key = key

\* Mutant of DictAdd: a second contribution replaces the first.
DictAdd_overwrite(snap, key, v) ==
    IF key \in Keys(snap)
    THEN [snap EXCEPT ![KeyPos(snap, key)].amp = v]
    ELSE Append(snap, Entry(key, v))

\* if key not in new_state: new_state[key] = 0
\* new_state[key] += v
DictAdd(snap, key, v) ==
    IF key \in Keys(snap)
    THEN [snap EXCEPT ![KeyPos(snap, key)].amp = AmpAdd(@, v)]
    ELSE Append(snap, Entry(key, AmpAdd(Amp(0, 0, 0), v)))

\* A dict compared as Python compares dicts: as a mapping, whatever the
\* insertion order.
AsMap(snap) == {<<snap[i].key, snap[i].amp>> : i \in 1..Len(snap)}

\* ---------------------------------------------------------- Diagram
\* possible_states: itertools.product(range(2), repeat=n_qubits), each
\* tuple reversed, so that character j of entry number i is bit j of i.
possible_states_of(n) ==
    [i \in 1..(2 ^ n) |->
        [j \in 1..n |-> IF ((i - 1) \div (2 ^ (j - 1))) % 2 = 1 THEN "1" ELSE "0"]]

NoDiagram ==
    [constructed |-> FALSE, n_qubits |-> 0, font |-> <<0, 1>>,
     w_label |-> <<0, 1>>, arrow_off |-> <<0, 1>>, w_time |-> <<0, 1>>,
     possible_states |-> <<>>, state_sequence |-> <<>>, d |-> <<>>]

\* state_text: the amplitude label, then the two lines of the red X when
\* the amplitude is below the threshold.  The label's amplitude is the
\* exact one: get_amp_as_value only rounds what is displayed, and rounding
\* to two digits takes no nonzero amplitude of this form below 1e-8.
state_text(g, time, key, amp) ==
    LET lab == Append(g, [kind |-> "state_text", time |-> time, key |-> key,
                          amp |-> amp])
        x == [kind |-> "cross", time |-> time, key |-> key]
    IN  IF get_abs_below_eps(amp) THEN lab \o <<x, x>> ELSE lab

RECURSIVE draw_entries(_, _, _, _)
draw_entries(g, t, snap, i) ==
    IF i > Len(snap) THEN g
    ELSE draw_entries(state_text(g, t, snap[i].key, snap[i].amp), t, snap, i + 1)

\* draw_states: the labels of the last snapshot, at its time step.
draw_states(state_sequence, g) ==
    draw_entries(g, Len(state_sequence) - 1,
                 state_sequence[Len(state_sequence)], 1)

\* arrow_space after the constructor's clamp.
clamp_arrow_space(ws_label, arrow_space) ==
    IF RatGt(arrow_space, RatHalf(ws_label)) THEN RatHalf(ws_label)
    ELSE arrow_space

\* Diagram.__init__ with init_state=None, for n_qubits >= 0
\* (itertools.product raises ValueError for a negative repeat).
Diagram(n_qubits, w_time, font, ws_label, arrow_space) ==
    LET w_label == RatMul(font, ws_label)
        init_state == <<Entry([j \in 1..n_qubits |-> "0"], Amp(1, 0, 0))>>
    IN  [constructed |-> TRUE,
         n_qubits |-> n_qubits,
         font |-> font,
         w_time |-> w_time,
         w_label |-> w_label,
         arrow_off |-> RatMul(RatHalf(w_label),
                              clamp_arrow_space(ws_label, arrow_space)),
         possible_states |-> possible_states_of(n_qubits),
         state_sequence |-> <<init_state>>,
         d |-> draw_states(<<init_state>>, <<>>)]

\* gate_arrow: one arrow from (key1, time1) to (key2, time1 + 1); its
\* colour and width are functions of amp.
gate_arrow(g, time1, key1, key2, amp) ==
    Append(g, [kind |-> "arrow", time |-> time1, key1 |-> key1,
               key2 |-> key2, amp |-> amp])

transition_text(g, start_time, label) ==
    Append(g, [kind |-> "transition_text", time |-> start_time,
               label |-> label])

RECURSIVE simplify_all(_, _)
simplify_all(snap, i) ==
    IF i > Len(snap) THEN snap
    ELSE simplify_all([snap EXCEPT ![i].amp = simplify(@)], i + 1)

\* Mutant of clean_state: nothing is pruned.
clean_state_keep_all(snap) == snap

\* The entries that survive add_states's pruning.
clean_state(snap) ==
    SelectSeq(snap, LAMBDA e : ~get_abs_below_eps(e.amp))

\* Mutant of add_states: the new snapshot overwrites the latest one
\* instead of being appended.
add_states_overwrite(df, new_state) ==
    LET simp == simplify_all(new_state, 1)
        n == Len(df.state_sequence)
        g == draw_states(Append(df.state_sequence, simp), df.d)
    IN  [df EXCEPT !.state_sequence = [@ EXCEPT ![n] = clean_state(simp)],
                   !.d = g]

\* Mutant of add_states: the snapshot is pruned before its labels are
\* drawn.
add_states_prune_first(df, new_state) ==
    LET simp == clean_state(simplify_all(new_state, 1))
        seq1 == Append(df.state_sequence, simp)
        g == draw_states(seq1, df.d)
    IN  [df EXCEPT !.state_sequence = seq1, !.d = g]

\* add_states: simplify, append, draw the labels, then replace the
\* appended snapshot by its pruned copy.
add_states(df, new_state) ==
    LET simp == simplify_all(new_state, 1)
        seq1 == Append(df.state_sequence, simp)
        g == draw_states(seq1, df.d)
    IN  [df EXCEPT !.state_sequence = [seq1 EXCEPT ![Len(seq1)] = clean_state(simp)],
                   !.d = g]

\* The result of a call: exc is "none" or the exception raised, df the
\* Diagram after the call.
Result(exc, df) == [exc |-> exc, df |-> df]

\* Mutant of single_gate_step: the column of the matrix is always the
\* first, whatever the qubit's bit.
single_gate_step_first_column(acc, t, e, q_i, gate_matrix) ==
    IF ~PyIndexOk(e.key, q_i)
    THEN [acc EXCEPT !.exc = "IndexError"]
    ELSE
      LET p == PyPos(e.key, q_i)
          zero == [e.key EXCEPT ![p] = "0"]
          one == [e.key EXCEPT ![p] = "1"]
          zero_amp == gate_matrix[1][1]
          one_amp == gate_matrix[2][1]
          a1 == IF ~AmpIsZero(zero_amp)
                THEN [acc EXCEPT
                        !.d = gate_arrow(@, t, e.key, zero, zero_amp),
                        !.new_state = DictAdd(@, zero, AmpMul(zero_amp, e.amp))]
                ELSE acc
      IN  IF ~AmpIsZero(one_amp)
          THEN [a1 EXCEPT
                  !.d = gate_arrow(@, t, e.key, one, one_amp),
                  !.new_state = DictAdd(@, one, AmpMul(one_amp, e.amp))]
          ELSE a1

\* One iteration of perform_single_gate's loop on an entry, given the
\* accumulator acc = [exc, new_state, d].
single_gate_step(acc, t, e, q_i, gate_matrix) ==
    IF ~PyIndexOk(e.key, q_i)
    THEN [acc EXCEPT !.exc = "IndexError"]
    ELSE
      LET p == PyPos(e.key, q_i)
          is_one == e.key[p] = "1"
          zero == [e.key EXCEPT ![p] = "0"]
          one == [e.key EXCEPT ![p] = "1"]
          zero_amp == IF is_one THEN gate_matrix[1][2] ELSE gate_matrix[1][1]
          one_amp == IF is_one THEN gate_matrix[2][2] ELSE gate_matrix[2][1]
          a1 == IF ~AmpIsZero(zero_amp)
                THEN [acc EXCEPT
                        !.d = gate_arrow(@, t, e.key, zero, zero_amp),
                        !.new_state = DictAdd(@, zero, AmpMul(zero_amp, e.amp))]
                ELSE acc
      IN  IF ~AmpIsZero(one_amp)
          THEN [a1 EXCEPT
                  !.d = gate_arrow(@, t, e.key, one, one_amp),
                  !.new_state = DictAdd(@, one, AmpMul(one_amp, e.amp))]
          ELSE a1

RECURSIVE single_gate_loop(_, _, _, _, _, _)
single_gate_loop(acc, t, snap, i, q_i, gate_matrix) ==
    IF i > Len(snap) \/ acc.exc # "none" THEN acc
    ELSE single_gate_loop(single_gate_step(acc, t, snap[i], q_i, gate_matrix),
                          t, snap, i + 1, q_i, gate_matrix)

perform_single_gate(df, q_i, name, gate_matrix) ==
    LET t == Len(df.state_sequence) - 1
        acc == single_gate_loop([exc |-> "none", new_state |-> <<>>, d |-> df.d],
                                t, df.state_sequence[t + 1], 1, q_i, gate_matrix)
    IN  IF acc.exc # "none"
        THEN Result(acc.exc, [df EXCEPT !.d = acc.d])
        ELSE Result("none",
                    add_states([df EXCEPT !.d = transition_text(acc.d, t, <<name, q_i>>)],
                               acc.new_state))

\* ------------------------------------------------------ gate library
A0 == Amp(0, 0, 0)
A1 == Amp(1, 0, 0)
AI == Amp(0, 1, 0)
InvSqrt2 == Amp(1, 0, 1)

\* Mutant of H_gate: the 1/sqrt(2) is left out.
H_gate_unnormalised == <<<<A1, A1>>, <<A1, AmpNeg(A1)>>>>

X_gate == <<<<A0, A1>>, <<A1, A0>>>>
Y_gate == <<<<A0, AmpNeg(AI)>>, <<AI, A0>>>>
Z_gate == <<<<A1, A0>>, <<A0, AmpNeg(A1)>>>>
H_gate == <<<<InvSqrt2, InvSqrt2>>, <<InvSqrt2, AmpNeg(InvSqrt2)>>>>

perform_x(df, q_i) == perform_single_gate(df, q_i, "X", X_gate)
perform_y(df, q_i) == perform_single_gate(df, q_i, "Y", Y_gate)
perform_z(df, q_i) == perform_single_gate(df, q_i, "Z", Z_gate)
perform_h(df, q_i) == perform_single_gate(df, q_i, "H", H_gate)

\* cos and sin of pi*half_turns/2, and exp(i*pi*half_turns/2), for an
\* integer number of half turns: sympy evaluates them exactly.
CosHalf(half_turns) == <<A1, A0, AmpNeg(A1), A0>>[(half_turns % 4) + 1]
SinHalf(half_turns) == <<A0, A1, A0, AmpNeg(A1)>>[(half_turns % 4) + 1]
ExpHalf(half_turns) == <<A1, AI, AmpNeg(A1), AmpNeg(AI)>>[(half_turns % 4) + 1]

perform_rx(df, q_i, half_turns) ==
    LET c == CosHalf(half_turns)
        s == AmpNorm(AmpMul(AmpNeg(AI), SinHalf(half_turns)))
    IN  perform_single_gate(df, q_i, "Rx", <<<<c, s>>, <<s, c>>>>)

perform_ry(df, q_i, half_turns) ==
    LET c == CosHalf(half_turns)
        s == SinHalf(half_turns)
    IN  perform_single_gate(df, q_i, "Ry", <<<<c, AmpNeg(s)>>, <<s, c>>>>)

perform_rz(df, q_i, half_turns) ==
    perform_single_gate(df, q_i, "Rz",
        <<<<ExpHalf(-half_turns), A0>>, <<A0, ExpHalf(half_turns)>>>>)

\* Mutant of cnot_step: the target is flipped whatever the control bit.
cnot_step_ignore_control(acc, t, e, qi1, qi2) ==
    IF ~PyIndexOk(e.key, qi1) \/ ~PyIndexOk(e.key, qi2)
    THEN [acc EXCEPT !.exc = "IndexError"]
    ELSE
      LET is_targ_one == e.key[PyPos(e.key, qi2)] = "1"
          new_key == [e.key EXCEPT ![PyPos(e.key, qi2)] =
                        IF is_targ_one THEN "0" ELSE "1"]
      IN  [acc EXCEPT !.d = gate_arrow(@, t, e.key, new_key, A1),
                      !.new_state = DictAdd(@, new_key, e.amp)]

\* Mutant of cnot_step: the target is set to 1 instead of flipped.
cnot_step_set_target(acc, t, e, qi1, qi2) ==
    IF ~PyIndexOk(e.key, qi1) \/ ~PyIndexOk(e.key, qi2)
    THEN [acc EXCEPT !.exc = "IndexError"]
    ELSE
      LET is_one == e.key[PyPos(e.key, qi1)] = "1"
          new_key == IF is_one
                     THEN [e.key EXCEPT ![PyPos(e.key, qi2)] = "1"]
                     ELSE e.key
      IN  [acc EXCEPT !.d = gate_arrow(@, t, e.key, new_key, A1),
                      !.new_state = DictAdd(@, new_key, e.amp)]

\* One iteration of perform_cnot's loop.
cnot_step(acc, t, e, qi1, qi2) ==
    IF ~PyIndexOk(e.key, qi1) \/ ~PyIndexOk(e.key, qi2)
    THEN [acc EXCEPT !.exc = "IndexError"]
    ELSE
      LET is_one == e.key[PyPos(e.key, qi1)] = "1"
          is_targ_one == e.key[PyPos(e.key, qi2)] = "1"
          new_key == IF is_one
                     THEN [e.key EXCEPT ![PyPos(e.key, qi2)] =
                              IF is_targ_one THEN "0" ELSE "1"]
                     ELSE e.key
      IN  [acc EXCEPT !.d = gate_arrow(@, t, e.key, new_key, A1),
                      !.new_state = DictAdd(@, new_key, e.amp)]

RECURSIVE cnot_loop(_, _, _, _, _, _)
cnot_loop(acc, t, snap, i, qi1, qi2) ==
    IF i > Len(snap) \/ acc.exc # "none" THEN acc
    ELSE cnot_loop(cnot_step(acc, t, snap[i], qi1, qi2), t, snap, i + 1, qi1, qi2)

perform_cnot(df, qi1, qi2) ==
    LET t == Len(df.state_sequence) - 1
        acc == cnot_loop([exc |-> "none", new_state |-> <<>>, d |-> df.d],
                         t, df.state_sequence[t + 1], 1, qi1, qi2)
    IN  IF acc.exc # "none"
        THEN Result(acc.exc, [df EXCEPT !.d = acc.d])
        ELSE Result("none",
                    add_states([df EXCEPT
                                  !.d = transition_text(acc.d, t, <<"CNOT", qi1, qi2>>)],
                               acc.new_state))

\* ------------------------------------------- gates applied to a Diagram
\* Diagram's defaults: w_time = 120, font = 12, ws_label = 6, arrow_space = 1.
DefaultDiagram(n) == Diagram(n, <<120, 1>>, <<12, 1>>, <<6, 1>>, <<1, 1>>)

NoDriver ==
    /\ gates = <<>>
    /\ gi = 0
    /\ mode = "none"
    /\ lines = <<>>
    /\ returned = "none"

Init ==
    /\ \E n \in 1..MaxQubits : f = DefaultDiagram(n)
    /\ raised = "none"
    /\ NoDriver

\* The qubit indices tried: every valid one and the first invalid one.
QubitArgs == 0..f.n_qubits

CanApply == Len(f.state_sequence) <= MaxGates

Call(r) ==
    /\ f' = r.df
    /\ raised' = r.exc
    /\ UNCHANGED <<gates, gi, mode, lines, returned>>

PerformH == CanApply /\ \E q \in QubitArgs : Call(perform_h(f, q))
PerformX == CanApply /\ \E q \in QubitArgs : Call(perform_x(f, q))
PerformY == CanApply /\ \E q \in QubitArgs : Call(perform_y(f, q))
PerformZ == CanApply /\ \E q \in QubitArgs : Call(perform_z(f, q))
PerformCnot ==
    CanApply /\ \E q1 \in QubitArgs, q2 \in QubitArgs : Call(perform_cnot(f, q1, q2))

Next == PerformH \/ PerformX \/ PerformY \/ PerformZ \/ PerformCnot

Spec == Init /\ [][Next]_vars

\* ------------------------------------------------ Diagram construction
\* The layout constants tried by a constructor call.
Fonts == {<<6, 1>>, <<12, 1>>}
WsLabels == {<<w, 1>> : w \in 1..(MaxArrowSpace + 1)}
ArrowSpaces == {<<a, 1>> : a \in 0..MaxArrowSpace}

ConstructInit ==
    /\ f = NoDiagram
    /\ raised = "none"
    /\ NoDriver

\* Diagram(n_qubits, font=..., ws_label=..., arrow_space=...): the layout
\* arithmetic never raises; itertools.product raises ValueError for a
\* negative repeat, and then no Diagram comes to exist.
Construct ==
    /\ ~f.constructed
    /\ raised = "none"
    /\ \E n \in -1..MaxQubits, font \in Fonts, ws_label \in WsLabels,
          arrow_space \in ArrowSpaces :
          IF n < 0
          THEN f' = f /\ raised' = "ValueError"
          ELSE f' = Diagram(n, <<120, 1>>, font, ws_label, arrow_space)
               /\ raised' = "none"
    /\ UNCHANGED <<gates, gi, mode, lines, returned>>

SpecConstruct == ConstructInit /\ [][Construct]_vars

\* ------------------------------------------------- command.py: tokens
\* A gate token is a Python str: a sequence of characters.
Digits == {"0", "1", "2", "3", "4", "5", "6", "7", "8", "9"}

DigitVal(c) ==
    CASE c = "0" -> 0 [] c = "1" -> 1 [] c = "2" -> 2 [] c = "3" -> 3
      [] c = "4" -> 4 [] c = "5" -> 5 [] c = "6" -> 6 [] c = "7" -> 7
      [] c = "8" -> 8 [] c = "9" -> 9

\* str.upper on the letters gate names are written with.
Upper(c) ==
    CASE c = "a" -> "A" [] c = "c" -> "C" [] c = "h" -> "H" [] c = "n" -> "N"
      [] c = "o" -> "O" [] c = "p" -> "P" [] c = "r" -> "R" [] c = "s" -> "S"
      [] c = "t" -> "T" [] c = "w" -> "W" [] c = "x" -> "X" [] c = "y" -> "Y"
      [] c = "z" -> "Z" [] OTHER -> c

\* translate(digits -> '-').split('-')[0]: the characters before the first
\* digit or '-'.
RECURSIVE NameLen(_, _)
NameLen(s, i) ==
    IF i > Len(s) \/ s[i] \in Digits \/ s[i] = "-" THEN i - 1
    ELSE NameLen(s, i + 1)

\* str.split(','): the pieces between the commas (at least one piece).
RECURSIVE SplitComma(_, _, _)
SplitComma(s, i, cur) ==
    IF i > Len(s) THEN <<cur>>
    ELSE IF s[i] = "," THEN <<cur>> \o SplitComma(s, i + 1, <<>>)
    ELSE SplitComma(s, i + 1, Append(cur, s[i]))

AllDigits(s) == Len(s) >= 1 /\ \A i \in 1..Len(s) : s[i] \in Digits

\* Whether int(piece) succeeds: an optional sign, then digits.
IntOk(piece) ==
    /\ Len(piece) >= 1
    /\ IF piece[1] \in {"-", "+"} THEN AllDigits(Tail(piece)) ELSE AllDigits(piece)

RECURSIVE DecVal(_, _, _)
DecVal(s, i, acc) ==
    IF i > Len(s) THEN acc ELSE DecVal(s, i + 1, 10 * acc + DigitVal(s[i]))

IntVal(piece) ==
    IF piece[1] = "-" THEN -DecVal(Tail(piece), 1, 0)
    ELSE IF piece[1] = "+" THEN DecVal(Tail(piece), 1, 0)
    ELSE DecVal(piece, 1, 0)

\* parse_gate: exc is "ValueError" when an argument is no integer.
parse_gate(gate_str) ==
    LET n == NameLen(gate_str, 1)
        name == SubSeq(gate_str, 1, n)
        pieces == SplitComma(SubSeq(gate_str, n + 1, Len(gate_str)), 1, <<>>)
    IN  IF \E i \in 1..Len(pieces) : ~IntOk(pieces[i])
        THEN [exc |-> "ValueError", name |-> name, args |-> <<>>]
        ELSE [exc |-> "none", name |-> name,
              args |-> [i \in 1..Len(pieces) |-> IntVal(pieces[i])]]

\* The tokens tried.
T_h0 == <<"h", "0">>
T_h1 == <<"h", "1">>
T_z1 == <<"z", "1">>
T_cnot01 == <<"c", "n", "o", "t", "0", ",", "1">>
T_cnot10 == <<"c", "n", "o", "t", "1", ",", "0">>
T_rz01 == <<"r", "z", "0", ",", "1">>
T_s0 == <<"s", "0">>
T_cz01 == <<"c", "z", "0", ",", "1">>
T_swap01 == <<"s", "w", "a", "p", "0", ",", "1">>
T_hm1 == <<"h", "-", "1">>
T_h2 == <<"h", "2">>

Tokens == {T_h0, T_h1, T_cnot01, T_rz01, T_s0, T_cz01, T_swap01, T_hm1, T_h2}

\* The gate lists of examples/render_examples.py that run on two qubits.
Interference == <<T_h0, T_cnot01, T_z1, T_h0, T_h1, T_cnot10, T_h1>>
Entanglement == <<T_h0, T_cnot01, T_h0, T_h1>>
NoEntanglement == <<T_h0, T_h1, T_cnot01, T_h0, T_h1>>

\* The number of qubits of those examples.
CmdQubits == 2

RECURSIVE SeqsUpTo(_, _)
SeqsUpTo(S, n) ==
    IF n = 0 THEN {<<>>}
    ELSE LET shorter == SeqsUpTo(S, n - 1)
         IN  shorter \cup {Append(l, x) : l \in shorter, x \in S}

GateLists ==
    {Interference, Entanglement, NoEntanglement} \cup SeqsUpTo(Tokens, MaxTokens)

\* ------------------------------------------- command.py: draw_diagram
N_h == <<"h">>
N_x == <<"x">>
N_y == <<"y">>
N_z == <<"z">>
N_rx == <<"r", "x">>
N_ry == <<"r", "y">>
N_rz == <<"r", "z">>
N_cnot == <<"c", "n", "o", "t">>
N_single_gate == <<"s", "i", "n", "g", "l", "e", "_", "g", "a", "t", "e">>

\* The names for which Diagram has a method perform_<name>.
PerformMethods == {N_h, N_x, N_y, N_z, N_rx, N_ry, N_rz, N_cnot, N_single_gate}

\* perform_single_gate called with integers: an integer is not
\* subscriptable, so the first entry of the snapshot raises (IndexError at
\* key[q_i], else TypeError at gate_matrix[0][0]); over an empty snapshot
\* the loop does not run and an empty snapshot is appended.
perform_single_gate_ints(df, q_i, name) ==
    LET t == Len(df.state_sequence) - 1
        snap == df.state_sequence[t + 1]
    IN  IF Len(snap) = 0
        THEN Result("none", add_states([df EXCEPT
                        !.d = transition_text(@, t, <<name, q_i>>)], <<>>))
        ELSE IF ~PyIndexOk(snap[1].key, q_i) THEN Result("IndexError", df)
        ELSE Result("TypeError", df)

\* Mutant of getattr_perform: a name with no method is skipped silently.
getattr_perform_lenient(df, name, args) ==
    IF name \notin PerformMethods THEN Result("none", df)
    ELSE IF name = N_cnot /\ Len(args) = 2 THEN perform_cnot(df, args[1], args[2])
    ELSE IF name = N_h /\ Len(args) = 1 THEN perform_h(df, args[1])
    ELSE Result("TypeError", df)

\* getattr(f, f'perform_{name}')(*args): AttributeError when there is no
\* such method, TypeError when the number of arguments is not the method's.
getattr_perform(df, name, args) ==
    IF name \notin PerformMethods THEN Result("AttributeError", df)
    ELSE IF name \in {N_h, N_x, N_y, N_z}
    THEN IF Len(args) # 1 THEN Result("TypeError", df)
         ELSE CASE name = N_h -> perform_h(df, args[1])
                [] name = N_x -> perform_x(df, args[1])
                [] name = N_y -> perform_y(df, args[1])
                [] name = N_z -> perform_z(df, args[1])
    ELSE IF name \in {N_rx, N_ry, N_rz}
    THEN IF Len(args) # 2 THEN Result("TypeError", df)
         ELSE CASE name = N_rx -> perform_rx(df, args[1], args[2])
                [] name = N_ry -> perform_ry(df, args[1], args[2])
                [] name = N_rz -> perform_rz(df, args[1], args[2])
    ELSE IF name = N_cnot
    THEN IF Len(args) # 2 THEN Result("TypeError", df)
         ELSE perform_cnot(df, args[1], args[2])
    ELSE IF Len(args) # 4 THEN Result("TypeError", df)
         ELSE perform_single_gate_ints(df, args[1], args[3])

\* The Diagram draw_diagram constructs: ws_label = 4 + 0.55 * n_qubits,
\* font = 12, w_time = 60 + ws_label * 12, arrow_space = 1.
draw_diagram_new(n) ==
    LET ws_label == Rat(80 + 11 * n, 20)
    IN  Diagram(n, RatAdd(<<60, 1>>, RatMul(ws_label, <<12, 1>>)),
                <<12, 1>>, ws_label, <<1, 1>>)

\* One pass of draw_diagram's loop, on token gate.
draw_diagram_gate(df, gate) ==
    LET p == parse_gate(gate)
    IN  IF p.exc # "none" THEN Result(p.exc, df)
        ELSE getattr_perform(df, p.name, p.args)

CmdInit ==
    /\ f = NoDiagram
    /\ raised = "none"
    /\ gates \in GateLists
    /\ gi = -1
    /\ mode \in {"diagram", "circuit"}
    /\ lines = <<>>
    /\ returned = "none"

Running == raised = "none" /\ returned = "none"

DrawDiagramStart ==
    /\ mode = "diagram" /\ Running /\ gi = -1
    /\ f' = draw_diagram_new(CmdQubits)
    /\ gi' = 0
    /\ UNCHANGED <<raised, gates, mode, lines, returned>>

\* gi counts the tokens processed; a token that raises ends the call.
DrawDiagramGate ==
    /\ mode = "diagram" /\ Running /\ gi >= 0 /\ gi < Len(gates)
    /\ LET r == draw_diagram_gate(f, gates[gi + 1])
       IN  /\ f' = r.df
           /\ raised' = r.exc
           /\ gi' = IF r.exc = "none" THEN gi + 1 ELSE gi
    /\ UNCHANGED <<gates, mode, lines, returned>>

DrawDiagramReturn ==
    /\ mode = "diagram" /\ Running /\ gi = Len(gates)
    /\ returned' = "diagram"
    /\ UNCHANGED <<f, raised, gates, gi, mode, lines>>

\* ---------------------------------------- command.py: draw_circuit_pdf
UpperName(name) == [i \in 1..Len(name) |-> Upper(name[i])]

\* name[:1].upper() + name[1:]
Capitalize(name) == [i \in 1..Len(name) |-> IF i = 1 THEN Upper(name[i]) ELSE name[i]]

StartsWithC(name) == Len(name) >= 1 /\ Upper(name[1]) = "C"

\* One pass of draw_circuit_pdf's loop: the cells the token adds to the
\* n_qubits lines, or NotImplementedError.
draw_circuit_gate(ls, gate) ==
    LET p == parse_gate(gate)
        n == Len(ls)
    IN  IF p.exc # "none" THEN [exc |-> p.exc, lines |-> ls]
        ELSE IF Len(p.args) = 1
        THEN [exc |-> "none",
              lines |-> [i \in 1..n |->
                  Append(ls[i], IF i - 1 = p.args[1]
                                THEN <<"gate", Capitalize(p.name)>>
                                ELSE <<"qw">>)]]
        ELSE IF Len(p.args) = 2 /\ StartsWithC(p.name)
        THEN LET targ == IF UpperName(p.name) = <<"C", "N", "O", "T">>
                         THEN <<"targ">>
                         ELSE <<"gate", Capitalize(p.name)>>
                 ctrl_len == p.args[2] - p.args[1]
             IN  [exc |-> "none",
                  lines |-> [i \in 1..n |->
                      Append(ls[i], IF i - 1 = p.args[1] THEN <<"ctrl", ctrl_len>>
                                    ELSE IF i - 1 = p.args[2] THEN targ
                                    ELSE <<"qw">>)]]
        ELSE [exc |-> "NotImplementedError", lines |-> ls]

DrawCircuitStart ==
    /\ mode = "circuit" /\ Running /\ gi = -1
    /\ lines' = [i \in 1..CmdQubits |-> <<<<"lstick", i - 1>>>>]
    /\ gi' = 0
    /\ UNCHANGED <<f, raised, gates, mode, returned>>

DrawCircuitGate ==
    /\ mode = "circuit" /\ Running /\ gi >= 0 /\ gi < Len(gates)
    /\ LET r == draw_circuit_gate(lines, gates[gi + 1])
       IN  /\ lines' = r.lines
           /\ raised' = r.exc
           /\ gi' = IF r.exc = "none" THEN gi + 1 ELSE gi
    /\ UNCHANGED <<f, gates, mode, returned>>

\* The closing cell of every line, then the rendering.
DrawCircuitReturn ==
    /\ mode = "circuit" /\ Running /\ gi = Len(gates)
    /\ lines' = [i \in 1..Len(lines) |-> Append(lines[i], <<"qw_end">>)]
    /\ returned' = "pdf"
    /\ UNCHANGED <<f, raised, gates, gi, mode>>

CmdNext ==
    \/ DrawDiagramStart \/ DrawDiagramGate \/ DrawDiagramReturn
    \/ DrawCircuitStart \/ DrawCircuitGate \/ DrawCircuitReturn

SpecCmd == CmdInit /\ [][CmdNext]_vars

\* ===================================================== the properties
state_sequence == f.state_sequence

LastSnapshot == state_sequence[Len(state_sequence)]

\* The transition labels drawn so far, in order: label number t names the
\* gate that produced snapshot t + 1 from snapshot t.
Trans == SelectSeq(f.d, LAMBDA p : p.kind = "transition_text")

\* |amp|^2 as a rational.
MagSq(a) ==
    LET m == a.re * a.re + a.im * a.im
    IN  IF a.k >= 0 THEN Rat(m, 2 ^ a.k) ELSE Rat(m * (2 ^ (-a.k)), 1)

RECURSIVE NormSqFrom(_, _)
NormSqFrom(snap, i) ==
    IF i > Len(snap) THEN <<0, 1>>
    ELSE RatAdd(MagSq(snap[i].amp), NormSqFrom(snap, i + 1))

\* The sum of the squared magnitudes of a snapshot's amplitudes.
NormSq(snap) == NormSqFrom(snap, 1)

\* perform_cnot called with the control as its own target.
IsSelfCnot(label) == label[1] = "CNOT" /\ label[2] = label[3]

C4_Pruned ==
    /\ \A t \in 2..Len(state_sequence) :
          \A i \in 1..Len(state_sequence[t]) :
              ~get_abs_below_eps(state_sequence[t][i].amp)
    /\ \A i \in 1..Len(f.d) :
          /\ (f.d[i].kind = "arrow" /\ f.d[i].time >= 1) =>
                \E j \in 1..Len(state_sequence[f.d[i].time + 1]) :
                    /\ state_sequence[f.d[i].time + 1][j].key = f.d[i].key1
                    /\ ~get_abs_below_eps(state_sequence[f.d[i].time + 1][j].amp)
          /\ (f.d[i].kind = "cross" /\ f.d[i].time < Len(state_sequence)) =>
                f.d[i].key \notin Keys(state_sequence[f.d[i].time + 1])

\* A branch cancelled by a gate (its label crossed out), and a later gate
\* applied to the pruned snapshot.
C4_Witness ==
    \E i \in 1..Len(f.d) :
        /\ f.d[i].kind = "cross"
        /\ f.d[i].time >= 1
        /\ Len(state_sequence) > f.d[i].time + 1

\* C5: a gate application that succeeds appends exactly one snapshot and
\* leaves the snapshots already in the sequence as they were, one that
\* fails leaves the sequence as it was, and the sequence holds one
\* snapshot more than the gates applied.
C5_AppendOnly ==
    /\ [](Len(state_sequence) = Len(Trans) + 1)
    /\ [][IF raised' = "none"
          THEN /\ Len(f'.state_sequence) = Len(state_sequence) + 1
               /\ SubSeq(f'.state_sequence, 1, Len(state_sequence)) = state_sequence
          ELSE f'.state_sequence = state_sequence]_vars

\* Three gates applied, one of them pruning a cancelled branch.
C5_Witness ==
    /\ Len(state_sequence) = 4
    /\ raised = "none"
    /\ \E i \in 1..Len(f.d) : f.d[i].kind = "cross"

K00 == <<"0", "0">>
K10 == <<"1", "0">>
K01 == <<"0", "1">>
K11 == <<"1", "1">>

\* draw_diagram has returned the diagram of the entanglement example.
EntanglementDone ==
    mode = "diagram" /\ gates = Entanglement /\ returned = "diagram"

\* C1 as claimed: after h0 cnot0,1 h0 h1 on two qubits the final snapshot
\* holds all four bitstrings, each of magnitude 1/2.
C1_FourEntries ==
    EntanglementDone =>
        /\ Keys(LastSnapshot) = {K00, K10, K01, K11}
        /\ \A i \in 1..Len(LastSnapshot) : MagSq(LastSnapshot[i].amp) = <<1, 4>>

\* C1, amended: after h0 cnot0,1 h0 h1 on two qubits the final snapshot
\* holds exactly the bitstrings 00 and 11, each with amplitude 1/sqrt(2);
\* the snapshot of four entries of magnitude 1/2 is the one before the
\* last gate.
C1_TwoEntries ==
    EntanglementDone =>
        /\ AsMap(LastSnapshot) = {<<K00, InvSqrt2>>, <<K11, InvSqrt2>>}
        /\ Keys(state_sequence[4]) = {K00, K10, K01, K11}
        /\ \A i \in 1..Len(state_sequence[4]) :
              MagSq(state_sequence[4][i].amp) = <<1, 4>>

C1_Witness == EntanglementDone /\ Len(state_sequence) = 5

\* draw_diagram has returned the diagram of the no-entanglement example.
NoEntanglementDone ==
    mode = "diagram" /\ gates = NoEntanglement /\ returned = "diagram"

\* C6: after h0 h1 cnot0,1 h0 h1 on two qubits the final snapshot is the
\* initial one: the single entry 00 with amplitude 1.
C6_BackToInitial ==
    NoEntanglementDone =>
        /\ LastSnapshot = <<Entry(K00, A1)>>
        /\ LastSnapshot = state_sequence[1]

C6_Witness == NoEntanglementDone /\ Len(state_sequence) = 6

\* C7 as claimed: no Diagram is constructed for n_qubits < 1.
C7_FailsBelowOne == f.constructed => f.n_qubits >= 1

\* C8 as claimed: the arrow inset of a constructed Diagram never exceeds
\* half the label width.
C8_InsetClamped == f.constructed => ~RatGt(f.arrow_off, RatHalf(f.w_label))

\* The gate catalog.
Catalog == {N_h, N_x, N_y, N_z, N_rx, N_ry, N_rz, N_cnot}

\* C9 as claimed: in either driver a token whose name is not in the
\* catalog is never processed: the call does not get past it, returns
\* nothing, and no snapshot is appended for it.
C9_UnknownGateBothDrivers ==
    \A j \in 1..Len(gates) :
        parse_gate(gates[j]).name \notin Catalog =>
            /\ gi < j
            /\ returned = "none"
            /\ f.constructed => Len(state_sequence) <= j

\* Whether draw_circuit_pdf draws a parsed token: one argument, or two
\* and a name that begins with C.
CircuitShape(p) ==
    /\ p.exc = "none"
    /\ \/ Len(p.args) = 1
       \/ Len(p.args) = 2 /\ StartsWithC(p.name)

\* C9, amended: draw_diagram does not get past a token whose name names
\* no perform_ method (the catalog's names and single_gate are the only
\* ones): the lookup raises AttributeError (or parse_gate ValueError),
\* nothing is returned and no snapshot is appended for it.
\* draw_circuit_pdf does not look at the catalog: it raises
\* NotImplementedError exactly for a token that parses and has neither one
\* argument nor two with a name beginning with C, and a token of that
\* shape never raises, whatever its name.
C9_UnknownGate ==
    \A j \in 1..Len(gates) :
        LET p == parse_gate(gates[j])
            failed_here == gi = j - 1 /\ raised # "none"
        IN  /\ (mode = "diagram" /\ p.name \notin PerformMethods) =>
                  /\ gi < j
                  /\ returned = "none"
                  /\ f.constructed => Len(state_sequence) <= j
                  /\ failed_here => raised \in {"AttributeError", "ValueError"}
            /\ (mode = "circuit" /\ CircuitShape(p)) => ~failed_here
            /\ (mode = "circuit" /\ ~CircuitShape(p)) =>
                  /\ gi < j
                  /\ returned = "none"
                  /\ failed_here =>
                        raised = IF p.exc # "none" THEN p.exc
                                 ELSE "NotImplementedError"

\* draw_diagram stopped by the lookup of an unknown name after a gate it
\* applied.
C9_Witness ==
    /\ mode = "diagram"
    /\ raised = "AttributeError"
    /\ gi >= 1
    /\ parse_gate(gates[gi + 1]).name \notin Catalog
    /\ Len(state_sequence) = gi + 1

\* The qubit indices among a parsed token's arguments.
QubitIndices(p) ==
    IF p.name \in {N_rx, N_ry, N_rz} THEN {p.args[1]}
    ELSE {p.args[i] : i \in 1..Len(p.args)}

\* C10 as claimed: a gate with a qubit index outside [0, n_qubits) fails
\* and appends no snapshot, so every token draw_diagram has applied has
\* its qubit indices in that range.
C10_BadIndexFails ==
    mode = "diagram" =>
        \A j \in 1..gi :
            QubitIndices(parse_gate(gates[j])) \subseteq 0..(CmdQubits - 1)

\* The key with its target bit flipped exactly when its control bit is 1
\* (control and target are qubit indices in [0, n_qubits)).
FlippedKey(key, control, target) ==
    IF key[control + 1] = "1"
    THEN [key EXCEPT ![target + 1] = IF key[target + 1] = "1" THEN "0" ELSE "1"]
    ELSE key

\* Gate number t is a CNOT that moves every entry of its input to the
\* flipped key with its amplitude, one destination per source: the output
\* holds as many entries, on distinct keys, in the order of their sources.
CnotPermutes(t) ==
    LET control == Trans[t].label[2]
        target == Trans[t].label[3]
        src == state_sequence[t]
        dst == state_sequence[t + 1]
    IN  /\ Len(dst) = Len(src)
        /\ Cardinality(Keys(dst)) = Len(src)
        /\ \A i \in 1..Len(src) :
              dst[i] = Entry(FlippedKey(src[i].key, control, target), src[i].amp)

\* C11 as claimed: for every control and target in [0, n_qubits), the
\* control as its own target included, CNOT is a permutation of the
\* bitstrings that carries the amplitudes along.
C11_PermutationAnyPair ==
    \A t \in 1..Len(Trans) : Trans[t].label[1] = "CNOT" => CnotPermutes(t)

\* C11, amended: for every control and target in [0, n_qubits) that are
\* distinct, CNOT is a permutation of the bitstrings: each key has its
\* target bit flipped exactly when its control bit is 1, distinct sources
\* go to distinct destinations and every destination carries the
\* amplitude of its single source.
C11_Permutation ==
    \A t \in 1..Len(Trans) :
        (Trans[t].label[1] = "CNOT" /\ ~IsSelfCnot(Trans[t].label))
        => CnotPermutes(t)

\* A CNOT on distinct qubits that moves an entry of a superposition of at
\* least two bitstrings.
C11_Witness ==
    \E t \in 1..Len(Trans) :
        /\ Trans[t].label[1] = "CNOT"
        /\ ~IsSelfCnot(Trans[t].label)
        /\ Len(state_sequence[t]) >= 2
        /\ Keys(state_sequence[t + 1]) # Keys(state_sequence[t])

\* The positions in the drawing of the primitives of one kind and time.
Prims(kind, time) ==
    {i \in 1..Len(f.d) : f.d[i].kind = kind /\ f.d[i].time = time}

\* Gate number g (from time step g - 1 to g) has drawn, in this order, its
\* branch arrows, its transition label and the amplitude labels of the
\* new snapshot: one label for each destination of an arrow, followed by
\* the cross-out marker exactly when its amplitude is below 1e-8; the
\* stored snapshot holds the labelled entries that are not crossed out.
GateDrawnInOrder(g) ==
    LET arrows == Prims("arrow", g - 1)
        trans == Prims("transition_text", g - 1)
        before == Prims("state_text", g - 1) \cup Prims("cross", g - 1)
        labels == Prims("state_text", g)
        crosses == Prims("cross", g)
        dests == {f.d[a].key2 : a \in arrows}
    IN  /\ Cardinality(trans) = 1
        /\ \A a \in arrows : (\A b \in before : b < a) /\ (\A p \in trans : a < p)
        /\ \A l \in labels \cup crosses : \A p \in trans : p < l
        /\ {f.d[l].key : l \in labels} = dests
        /\ Cardinality(labels) = Cardinality(dests)
        /\ \A l \in labels :
              get_abs_below_eps(f.d[l].amp) <=>
                  (l + 1 \in crosses /\ f.d[l + 1].key = f.d[l].key)
        /\ \A c \in crosses :
              \E l \in labels : /\ l < c
                                /\ f.d[l].key = f.d[c].key
                                /\ get_abs_below_eps(f.d[l].amp)
        /\ AsMap(state_sequence[g + 1]) =
              {<<f.d[l].key, f.d[l].amp>> :
                  l \in {m \in labels : ~get_abs_below_eps(f.d[m].amp)}}

\* C12: within every gate application the branch arrows, the transition
\* label and the amplitude labels of the new snapshot are drawn in this
\* order and the snapshot is pruned last: every destination bitstring that
\* received a contribution has an amplitude label at the new time step,
\* crossed out exactly when its summed magnitude is below 1e-8, also when
\* the entry is no longer in the stored snapshot; and no step removes a
\* drawn primitive.
C12_DrawOrder ==
    /\ [](\A g \in 1..Len(Trans) : GateDrawnInOrder(g))
    /\ [][/\ Len(f'.d) >= Len(f.d)
          /\ SubSeq(f'.d, 1, Len(f.d)) = f.d]_vars

\* Two branches have cancelled on one destination: its label is drawn
\* crossed out after the two arrows into it and the gate's transition
\* label, and the stored snapshot does not hold it.
C12_Witness ==
    \E g \in 1..Len(Trans) :
        \E l \in Prims("state_text", g) :
            /\ get_abs_below_eps(f.d[l].amp)
            /\ l + 2 \in Prims("cross", g)
            /\ Cardinality({a \in Prims("arrow", g - 1) :
                               f.d[a].key2 = f.d[l].key}) = 2
            /\ f.d[l].key \notin Keys(state_sequence[g + 1])
            /\ Len(state_sequence[g + 1]) >= 1

====
